---------------------------- MODULE Spec2Model ----------------------------
(***************************************************************************)
(* Model of src/main.py: DDLCGameFetcher (parse_french_date, the row loop  *)
(* of fetch_games, add_to_calendar).                                       *)
(*                                                                         *)
(* Text is modelled as a sequence of characters, each character a one-     *)
(* token string; the non-ASCII letters of the source are the tokens        *)
(* "e_acute", "E_acute" and "u_circ".  An element text is the value of     *)
(* get_text(strip=True), i.e. already stripped.                            *)
(***************************************************************************)
EXTENDS Integers, Sequences, FiniteSets, Bags, TLC

VARIABLES
    team_names,        \* self.team_names
    games,             \* self.games
    current_date_str,  \* fetch_games: the section date carried across rows
    now,               \* the last reading of datetime.now()
    pc,                \* position of main(): "rows", "raised", "fetched", "check", "insert", "parse", "parsed"
    nrows,             \* number of table rows processed so far
    row,               \* the row processed last
    outcome,           \* what the loop body did with it (the branch it left through)
    table,             \* which schedule table the page holds (a key of Tables)
    store,             \* the calendar application's events (a bag)
    run,               \* number of the add_to_calendar call in progress
    k,                 \* add_to_calendar: index of the game being handled
    added_count,       \* add_to_calendar: added_count
    skipped_count,     \* add_to_calendar: skipped_count
    failed_count,      \* add_to_calendar: number of "Error adding" branches taken
    attempts,          \* add_to_calendar: per game of this call, what was done with it
    call,              \* parse_french_date: the arguments of one call
    ret                \* parse_french_date: its result

vars == <<team_names, games, current_date_str, now, pc, nrows, row, outcome, table,
          store, run, k, added_count, skipped_count, failed_count, attempts, call, ret>>

fetchVars == <<team_names, games, current_date_str, now, nrows, row, outcome, table>>
addVars == <<store, run, k, added_count, skipped_count, failed_count, attempts>>
parseVars == <<call, ret>>

-----------------------------------------------------------------------------
(* Values *)

None == [kind |-> "None"]
Pending == [kind |-> "pending"]
ValueError == [kind |-> "ValueError"]
OverflowError == [kind |-> "OverflowError"]

IsDatetime(v) == v.kind = "datetime"
IsRaise(v) == v.kind \in {"ValueError", "OverflowError"}

IntVal(n) == [kind |-> "int", value |-> n]

-----------------------------------------------------------------------------
(* Characters and the regular expressions of the source *)

DigitChars == {"0", "1", "2", "3", "4", "5", "6", "7", "8", "9"}

\* characters of the model's alphabet that are not \w
NonWordChars == {" ", ",", ":", "-", "(", ")", "@", "\n", ".", "/"}

IsDigit(c) == c \in DigitChars
IsSpace(c) == c \in {" ", "\n"}
IsWord(c) == c \notin NonWordChars

DigitVal(c) ==
    CASE c = "0" -> 0 [] c = "1" -> 1 [] c = "2" -> 2 [] c = "3" -> 3 [] c = "4" -> 4
      [] c = "5" -> 5 [] c = "6" -> 6 [] c = "7" -> 7 [] c = "8" -> 8 [] c = "9" -> 9

\* str.lower() on one character
LowerChar(c) ==
    CASE c = "A" -> "a" [] c = "B" -> "b" [] c = "C" -> "c" [] c = "D" -> "d"
      [] c = "E" -> "e" [] c = "F" -> "f" [] c = "G" -> "g" [] c = "H" -> "h"
      [] c = "I" -> "i" [] c = "J" -> "j" [] c = "K" -> "k" [] c = "L" -> "l"
      [] c = "M" -> "m" [] c = "N" -> "n" [] c = "O" -> "o" [] c = "P" -> "p"
      [] c = "Q" -> "q" [] c = "R" -> "r" [] c = "S" -> "s" [] c = "T" -> "t"
      [] c = "U" -> "u" [] c = "V" -> "v" [] c = "W" -> "w" [] c = "X" -> "x"
      [] c = "Y" -> "y" [] c = "Z" -> "z" [] c = "E_acute" -> "e_acute"
      [] OTHER -> c

\* str.lower()
Lower(s) == [i \in 1..Len(s) |-> LowerChar(s[i])]

\* pat in s
Contains(s, pat) ==
    \E i \in 1..(Len(s) + 1 - Len(pat)) : SubSeq(s, i, i + Len(pat) - 1) = pat

Min(S) == CHOOSE x \in S : \A y \in S : x <= y

\* the end (exclusive) of the longest run of characters satisfying P from i
RunEnd(s, i, P(_)) == Min({j \in i..(Len(s) + 1) : j = Len(s) + 1 \/ ~P(s[j])})

\* r'(\d+)\s+(\w+)' matches at position i
DateMatchAt(s, i) ==
    /\ IsDigit(s[i])
    /\ LET j == RunEnd(s, i, IsDigit) IN
       /\ j <= Len(s)
       /\ IsSpace(s[j])
       /\ LET m == RunEnd(s, j, IsSpace) IN m <= Len(s) /\ IsWord(s[m])

\* re.search(r'(\d+)\s+(\w+)', s): None, or the two groups
SearchDate(s) ==
    LET hits == {i \in 1..Len(s) : DateMatchAt(s, i)} IN
    IF hits = {} THEN None
    ELSE LET i == Min(hits)
             j == RunEnd(s, i, IsDigit)
             m == RunEnd(s, j, IsSpace)
             n == RunEnd(s, m, IsWord)
         IN [kind |-> "match", g1 |-> SubSeq(s, i, j - 1), g2 |-> SubSeq(s, m, n - 1)]

\* r'(\d+):(\d+)' matches at position i
TimeMatchAt(s, i) ==
    /\ IsDigit(s[i])
    /\ LET j == RunEnd(s, i, IsDigit) IN
       j + 1 <= Len(s) /\ s[j] = ":" /\ IsDigit(s[j + 1])

\* re.search(r'(\d+):(\d+)', s): None, or the two groups
SearchTime(s) ==
    LET hits == {i \in 1..Len(s) : TimeMatchAt(s, i)} IN
    IF hits = {} THEN None
    ELSE LET i == Min(hits)
             j == RunEnd(s, i, IsDigit)
             n == RunEnd(s, j + 1, IsDigit)
         IN [kind |-> "match", g1 |-> SubSeq(s, i, j - 1), g2 |-> SubSeq(s, j + 1, n - 1)]

\* re.match(r'^\d{1,2}:\d{2}$', s)
MatchStrictTime(s) ==
    /\ Len(s) \in {4, 5}
    /\ s[Len(s) - 2] = ":"
    /\ \A i \in 1..Len(s) : i # Len(s) - 2 => IsDigit(s[i])

\* r'\d{4}-\d{2}-\d{2}' matches at position i
IsoMatchAt(s, i) ==
    /\ i + 9 <= Len(s)
    /\ \A d \in {0, 1, 2, 3, 5, 6, 8, 9} : IsDigit(s[i + d])
    /\ s[i + 4] = "-"
    /\ s[i + 7] = "-"

\* re.search(r'(\d{4}-\d{2}-\d{2})', s): None, or group 1
SearchIso(s) ==
    LET hits == {i \in 1..Len(s) : IsoMatchAt(s, i)} IN
    IF hits = {} THEN None
    ELSE [kind |-> "match", g1 |-> SubSeq(s, Min(hits), Min(hits) + 9)]

-----------------------------------------------------------------------------
(* int() and datetime() *)

RECURSIVE StripZeros(_)
StripZeros(digs) ==
    IF Len(digs) > 1 /\ Head(digs) = "0" THEN StripZeros(Tail(digs)) ELSE digs

RECURSIVE DecimalValue(_)
DecimalValue(digs) ==
    IF digs = <<>> THEN 0
    ELSE 10 * DecimalValue(SubSeq(digs, 1, Len(digs) - 1)) + DigitVal(digs[Len(digs)])

\* the digits of the largest C int, 2^31 - 1
CIntMaxDigits == <<"2", "1", "4", "7", "4", "8", "3", "6", "4", "7">>

\* digit strings of equal length: s > t
DigitsGreater(s, t) ==
    \E i \in 1..Len(s) :
        /\ SubSeq(s, 1, i - 1) = SubSeq(t, 1, i - 1)
        /\ DigitVal(s[i]) > DigitVal(t[i])

\* int(digs).  Python's integers are unbounded; every consumer of the value
\* (the comparisons of line 48, datetime's range checks and its conversion to
\* a C int) tells apart only: a value below 10000, a larger value that fits a
\* C int (10000), and a value that does not fit a C int (10001).
PyIntOf(s) ==
    IF Len(s) > 10 \/ (Len(s) = 10 /\ DigitsGreater(s, CIntMaxDigits)) THEN 10001
    ELSE IF Len(s) > 4 THEN 10000
    ELSE DecimalValue(s)

\* the longest digit string int() converts (sys.get_int_max_str_digits());
\* int() raises ValueError on a longer one
IntMaxStrDigits == 4300

IntRaises(digs) == Len(digs) > IntMaxStrDigits

PyInt(digs) == IF IntRaises(digs) THEN ValueError ELSE PyIntOf(StripZeros(digs))

IsLeap(y) == (y % 4 = 0 /\ y % 100 # 0) \/ y % 400 = 0

DaysInMonth(y, m) ==
    IF m = 2 THEN (IF IsLeap(y) THEN 29 ELSE 28)
    ELSE IF m \in {4, 6, 9, 11} THEN 30 ELSE 31

\* datetime(year, month, day, hour, minute): the value, or the exception raised
datetime(year, month, day, hour, minute) ==
    IF \E a \in {year, month, day, hour, minute} : a > 10000 THEN OverflowError
    ELSE IF /\ year \in 1..9999
            /\ month \in 1..12
            /\ day \in 1..DaysInMonth(year, month)
            /\ hour \in 0..23
            /\ minute \in 0..59
         THEN [kind |-> "datetime", year |-> year, month |-> month, day |-> day,
               hour |-> hour, minute |-> minute]
         ELSE ValueError

\* a reading of datetime.now(): a datetime whose seconds and microseconds are
\* zero (frac = 0) or not (frac = 1)
Now(year, month, day, hour, minute, frac) ==
    [kind |-> "datetime", year |-> year, month |-> month, day |-> day,
     hour |-> hour, minute |-> minute, frac |-> frac]

Fields(d) == <<d.year, d.month, d.day, d.hour, d.minute>>

\* lexicographic a < b on tuples of equal length
TupleLess(a, b) ==
    \E i \in 1..Len(a) : SubSeq(a, 1, i - 1) = SubSeq(b, 1, i - 1) /\ a[i] < b[i]

\* game_datetime < datetime.now()
BeforeNow(d, n) == TupleLess(Fields(d) \o <<0>>, Fields(n) \o <<n.frac>>)

\* n1 <= n2 on readings of the clock
NowLeq(n1, n2) == ~TupleLess(Fields(n2) \o <<n2.frac>>, Fields(n1) \o <<n1.frac>>)

\* d + timedelta(minutes=mins), for 0 <= mins < 60: the value, or OverflowError
PlusMinutes(d, mins) ==
    LET minutes == d.hour * 60 + d.minute + mins
        nextDay == minutes >= 24 * 60
        nextMonth == nextDay /\ d.day = DaysInMonth(d.year, d.month)
        nextYear == nextMonth /\ d.month = 12
    IN IF nextYear /\ d.year = 9999 THEN OverflowError
       ELSE [kind |-> "datetime",
             year |-> IF nextYear THEN d.year + 1 ELSE d.year,
             month |-> IF nextYear THEN 1 ELSE IF nextMonth THEN d.month + 1 ELSE d.month,
             day |-> IF nextMonth THEN 1 ELSE IF nextDay THEN d.day + 1 ELSE d.day,
             hour |-> (minutes \div 60) % 24,
             minute |-> minutes % 60]

-----------------------------------------------------------------------------
(* parse_french_date *)

FRENCH_MONTHS ==
    ( <<"j", "a", "n", "v", "i", "e", "r">> :> 1
   @@ <<"f", "e_acute", "v", "r", "i", "e", "r">> :> 2
   @@ <<"m", "a", "r", "s">> :> 3
   @@ <<"a", "v", "r", "i", "l">> :> 4
   @@ <<"m", "a", "i">> :> 5
   @@ <<"j", "u", "i", "n">> :> 6
   @@ <<"j", "u", "i", "l", "l", "e", "t">> :> 7
   @@ <<"a", "o", "u_circ", "t">> :> 8
   @@ <<"s", "e", "p", "t", "e", "m", "b", "r", "e">> :> 9
   @@ <<"o", "c", "t", "o", "b", "r", "e">> :> 10
   @@ <<"n", "o", "v", "e", "m", "b", "r", "e">> :> 11
   @@ <<"d", "e_acute", "c", "e", "m", "b", "r", "e">> :> 12 )

\* the comparison of line 48 with <= in place of <: today is rolled forward too
InferYearRollsToday(month, day, current_date) ==
    IF month < current_date.month \/ (month = current_date.month /\ day <= current_date.day)
    THEN current_date.year + 1
    ELSE current_date.year

\* lines 45-49: the year when none is supplied
InferYear(month, day, current_date) ==
    IF month < current_date.month \/ (month = current_date.month /\ day < current_date.day)
    THEN current_date.year + 1
    ELSE current_date.year

\* lines 58-62
CatchValueError(v) == IF v = ValueError THEN None ELSE v

\* lines 51-62: the ValueError of int() is raised outside the try
ParseTime(day, month, yr, time_match) ==
    IF time_match = None THEN None
    ELSE IF IntRaises(time_match.g1) \/ IntRaises(time_match.g2) THEN ValueError
    ELSE CatchValueError(datetime(yr, month, day, PyInt(time_match.g1), PyInt(time_match.g2)))

\* lines 45-56
ParseYear(day, month, time_str, year, current_date) ==
    ParseTime(day, month,
              IF year = None THEN InferYear(month, day, current_date) ELSE year.value,
              SearchTime(time_str))

\* lines 40-43
ParseMonth(day, month_name, time_str, year, current_date) ==
    IF month_name \notin DOMAIN FRENCH_MONTHS THEN None
    ELSE ParseYear(day, FRENCH_MONTHS[month_name], time_str, year, current_date)

\* lines 34-38: the ValueError of int() leaves the function
ParseMatch(match, time_str, year, current_date) ==
    IF match = None THEN None
    ELSE IF IntRaises(match.g1) THEN ValueError
    ELSE ParseMonth(PyInt(match.g1), Lower(match.g2), time_str, year, current_date)

\* lines 34-46: whether the call reads datetime.now()
ReadsClockAt(match, year) ==
    /\ match # None
    /\ ~IntRaises(match.g1)
    /\ Lower(match.g2) \in DOMAIN FRENCH_MONTHS
    /\ year = None

ReadsClock(date_str, year) == ReadsClockAt(SearchDate(date_str), year)

\* parse_french_date(date_str, time_str, year), datetime.now() reading current_date:
\* a datetime, None, or the exception that leaves the function
parse_french_date(date_str, time_str, year, current_date) ==
    ParseMatch(SearchDate(date_str), time_str, year, current_date)

-----------------------------------------------------------------------------
(* fetch_games: the body of the loop over the table rows *)

\* an element's text, when the element exists (None when it does not)
Text(s) == [kind |-> "text", value |-> s]

\* seq[j] with Python's indexing: j >= 0 from the front, j < 0 from the back
PyIndex(seq, j) == IF j >= 0 THEN seq[j + 1] ELSE seq[Len(seq) + j + 1]

\* team in self.team_names
InList(x, list) == \E j \in 1..Len(list) : list[j] = x

NonEmpty(t) == t # <<>>

\* lines 130-135: first occurrences, in order
RECURSIVE Dedup(_, _)
Dedup(all_teams, seen) ==
    IF all_teams = <<>> THEN <<>>
    ELSE IF Head(all_teams) \in seen THEN Dedup(Tail(all_teams), seen)
    ELSE <<Head(all_teams)>> \o Dedup(Tail(all_teams), seen \cup {Head(all_teams)})

\* lines 127-135: the row's team names
TeamNamesOf(team_links) == Dedup(SelectSeq(team_links, NonEmpty), {})

\* lines 141-150: the first team of the row that is configured, if any
MatchTeam(names, configured) ==
    LET hits == {i \in 0..(Len(names) - 1) : InList(names[i + 1], configured)} IN
    IF hits = {} THEN None
    ELSE LET i == Min(hits) IN
         [kind |-> "team", our_team |-> names[i + 1], opponent |-> PyIndex(names, 1 - i),
          is_home |-> (i = 1)]

TextHockey == <<"H", "o", "c", "k", "e", "y">>
TextUnknown == <<"U", "n", "k", "n", "o", "w", "n">>
TextTBD == <<"T", "B", "D">>

NotSpace(c) == ~IsSpace(c)

\* lines 155-164: cat is the div.cat_name (None when absent), whose span is
\* None when absent and otherwise its text
Category(cat) ==
    IF cat = None THEN TextUnknown
    ELSE IF cat.span = None THEN TextHockey
    ELSE IF cat.span.value = <<>> THEN TextHockey
    ELSE SubSeq(cat.span.value, 1, RunEnd(cat.span.value, 1, NotSpace) - 1)

HasIso(td) == td.date # None /\ SearchIso(td.date.value) # None
HasTime(td) == td.date # None /\ SearchIso(td.date.value) = None /\ MatchStrictTime(td.date.value)

\* lines 184-197: the timestamp of an ISO date and an H:MM or HH:MM time, None
\* when datetime() raises ValueError
IsoDatetime(date_str, time_str) ==
    CatchValueError(
        datetime(PyInt(SubSeq(date_str, 1, 4)), PyInt(SubSeq(date_str, 6, 7)),
                 PyInt(SubSeq(date_str, 9, 10)),
                 PyInt(SubSeq(time_str, 1, Len(time_str) - 3)),
                 PyInt(SubSeq(time_str, Len(time_str) - 1, Len(time_str)))))

\* lines 166-203: the first cell holding a time, paired with the first cell
\* holding an ISO date; the venue of the time's cell
AbsoluteOf(tds, td, isos) ==
    [game_datetime |->
         IF isos = {} THEN None
         ELSE IsoDatetime(SearchIso(tds[Min(isos)].date.value).g1, td.date.value),
     venue |-> IF td.venue # None THEN td.venue.value ELSE TextTBD]

AbsoluteAt(tds, times) ==
    IF times = {} THEN [game_datetime |-> None, venue |-> TextTBD]
    ELSE AbsoluteOf(tds, tds[Min(times)], {i \in 1..Len(tds) : HasIso(tds[i])})

AbsoluteScan(tds) == AbsoluteAt(tds, {i \in 1..Len(tds) : HasTime(tds[i])})

\* row.find('div', class_='game_date'), row.find('div', class_='game_venue')
FirstDate(tds) ==
    LET has == {i \in 1..Len(tds) : tds[i].date # None} IN
    IF has = {} THEN None ELSE tds[Min(has)].date

FirstVenue(tds) ==
    LET has == {i \in 1..Len(tds) : tds[i].venue # None} IN
    IF has = {} THEN None ELSE tds[Min(has)].venue

\* lines 205-213: the section date is used when the cells gave no timestamp;
\* current_date is the reading of datetime.now() inside parse_french_date
RelativeFallback(abs, tds, section, current_date) ==
    IF abs.game_datetime = None /\ section # None /\ section.value # <<>>
    THEN [game_datetime |->
              IF FirstDate(tds) # None
              THEN parse_french_date(section.value, FirstDate(tds).value, None, current_date)
              ELSE None,
          venue |-> IF FirstVenue(tds) # None THEN FirstVenue(tds).value ELSE abs.venue,
          read_clock |-> FirstDate(tds) # None /\ ReadsClock(section.value, None)]
    ELSE [game_datetime |-> abs.game_datetime, venue |-> abs.venue, read_clock |-> FALSE]

\* line 219 comparing the dates only
IsPastByDate(game_datetime, n) ==
    TupleLess(<<game_datetime.year, game_datetime.month, game_datetime.day>>,
              <<n.year, n.month, n.day>>)

\* line 219
IsPast(game_datetime, n) == BeforeNow(game_datetime, n)

MarkStAug == <<"(", "S", "t", "-", "A", "u", "g">>
MarkStAugLower == <<"(", "s", "t", "-", "a", "u", "g">>
MarkChauveau == <<"(", "C", "h", "a", "u", "v", "e", "a", "u">>
MarkChauveauLower == <<"(", "c", "h", "a", "u", "v", "e", "a", "u">>
MarkLevisAccent == <<"l", "e_acute", "v", "i", "s">>
MarkLevis == <<"l", "e", "v", "i", "s">>
TextGame == <<"g", "a", "m", "e", " ">>
TextLevisSuffix == <<" ", "L", "e", "v", "i", "s">>

\* lines 222-233 with the first two branches exchanged
RouteVenueChauveauFirst(venue, category) ==
    IF Contains(venue, MarkChauveau) \/ Contains(Lower(venue), MarkChauveauLower)
    THEN [kind |-> "route", calendar |-> "Dek Chauveau", title |-> TextGame \o category]
    ELSE IF Contains(venue, MarkStAug) \/ Contains(Lower(venue), MarkStAugLower)
    THEN [kind |-> "route", calendar |-> "Dek St-Aug", title |-> TextGame \o category]
    ELSE IF Contains(Lower(venue), MarkLevisAccent) \/ Contains(Lower(venue), MarkLevis)
    THEN [kind |-> "route", calendar |-> "Autre",
          title |-> TextGame \o category \o TextLevisSuffix]
    ELSE None

\* lines 222-233: the calendar and the title, None for an unknown venue
RouteVenue(venue, category) ==
    IF Contains(venue, MarkStAug) \/ Contains(Lower(venue), MarkStAugLower)
    THEN [kind |-> "route", calendar |-> "Dek St-Aug", title |-> TextGame \o category]
    ELSE IF Contains(venue, MarkChauveau) \/ Contains(Lower(venue), MarkChauveauLower)
    THEN [kind |-> "route", calendar |-> "Dek Chauveau", title |-> TextGame \o category]
    ELSE IF Contains(Lower(venue), MarkLevisAccent) \/ Contains(Lower(venue), MarkLevis)
    THEN [kind |-> "route", calendar |-> "Autre",
          title |-> TextGame \o category \o TextLevisSuffix]
    ELSE None

\* re.sub(r'\s*\([^)]*\)', '', s): the leftmost match from each position on
RECURSIVE SubParens(_)
SubParens(s) ==
    IF s = <<>> THEN <<>>
    ELSE LET j == RunEnd(s, 1, IsSpace)
             closes == {c \in (j + 1)..Len(s) : s[c] = ")"}
         IN IF j <= Len(s) /\ s[j] = "(" /\ closes # {}
            THEN SubParens(SubSeq(s, Min(closes) + 1, Len(s)))
            ELSE <<Head(s)>> \o SubParens(Tail(s))

\* str.strip()
RECURSIVE Strip(_)
Strip(s) ==
    IF s = <<>> THEN s
    ELSE IF IsSpace(Head(s)) THEN Strip(Tail(s))
    ELSE IF IsSpace(s[Len(s)]) THEN Strip(SubSeq(s, 1, Len(s) - 1))
    ELSE s

\* lines 235-240
Notes(team, venue) ==
    LET venue_name == Strip(SubParens(venue)) IN
    IF team.is_home
    THEN team.opponent \o <<" ", "@", " ">> \o team.our_team \o <<"\n">> \o venue_name
    ELSE team.our_team \o <<" ", "@", " ">> \o team.opponent \o <<"\n">> \o venue_name

\* the fixed game duration of line 245, in minutes
GameMinutes == 50

\* lines 242-252 with the venue text as the location
GameEndingAtVenue(team, game_datetime, end, venue, route) ==
    IF IsRaise(end) THEN end
    ELSE [kind |-> "game", title |-> route.title, start |-> game_datetime, end |-> end,
          location |-> venue, notes |-> Notes(team, venue), calendar |-> route.calendar,
          our_team |-> team.our_team, opponent |-> team.opponent, is_home |-> team.is_home]

MakeGameAtVenue(team, game_datetime, venue, route) ==
    GameEndingAtVenue(team, game_datetime, PlusMinutes(game_datetime, GameMinutes), venue, route)

\* lines 242-252 once the end is computed
GameEnding(team, game_datetime, end, venue, route) ==
    IF IsRaise(end) THEN end
    ELSE [kind |-> "game", title |-> route.title, start |-> game_datetime, end |-> end,
          location |-> <<>>, notes |-> Notes(team, venue), calendar |-> route.calendar,
          our_team |-> team.our_team, opponent |-> team.opponent, is_home |-> team.is_home]

\* lines 242-252: the game, or the OverflowError of line 245
MakeGame(team, game_datetime, venue, route) ==
    GameEnding(team, game_datetime, PlusMinutes(game_datetime, GameMinutes), venue, route)

\* lines 242-254
RowOfGame(game, readings) ==
    IF IsRaise(game) THEN [outcome |-> "raised", game |-> None, readings |-> readings]
    ELSE [outcome |-> "found", game |-> game, readings |-> readings]

\* lines 231-254
RowOfRoute(team, found, route, readings) ==
    IF route = None THEN [outcome |-> "unknown_venue", game |-> None, readings |-> readings]
    ELSE RowOfGame(MakeGame(team, found.game_datetime, found.venue, route), readings)

\* lines 215-254: after1 holds the reading of the clock taken so far, if any
RowOfDatetime(team, category, found, after1, n2) ==
    IF IsRaise(found.game_datetime)
    THEN [outcome |-> "raised", game |-> None, readings |-> after1]
    ELSE IF found.game_datetime = None
    THEN [outcome |-> "no_datetime", game |-> None, readings |-> after1]
    ELSE IF IsPast(found.game_datetime, n2)
    THEN [outcome |-> "past", game |-> None, readings |-> after1 \o <<n2>>]
    ELSE RowOfRoute(team, found, RouteVenue(found.venue, category), after1 \o <<n2>>)

\* lines 155-254 for a row whose team is matched: n1 is the reading of the
\* clock inside parse_french_date, n2 the reading of line 219
RowOfFound(team, category, found, n1, n2) ==
    RowOfDatetime(team, category, found, IF found.read_clock THEN <<n1>> ELSE <<>>, n2)

RowOfTeam(r, team, section, n1, n2) ==
    RowOfFound(team, Category(r.cat),
               RelativeFallback(AbsoluteScan(r.tds), r.tds, section, n1), n1, n2)

\* lines 141-254
RowOfMatch(r, team, section, n1, n2) ==
    IF team = None THEN [outcome |-> "no_team", game |-> None, readings |-> <<>>]
    ELSE RowOfTeam(r, team, section, n1, n2)

\* lines 137-254
RowOfNames(r, team_names_of_row, configured, section, n1, n2) ==
    IF Len(team_names_of_row) < 2
    THEN [outcome |-> "few_names", game |-> None, readings |-> <<>>]
    ELSE RowOfMatch(r, MatchTeam(team_names_of_row, configured), section, n1, n2)

\* lines 115-254: one iteration of the loop
RowBody(r, configured, section, n1, n2) ==
    IF r.h2 # None THEN [outcome |-> "header", game |-> None, readings |-> <<>>]
    ELSE IF ~r.schedule_container
    THEN [outcome |-> "not_game_row", game |-> None, readings |-> <<>>]
    ELSE IF Len(r.team_links) < 2
    THEN [outcome |-> "few_links", game |-> None, readings |-> <<>>]
    ELSE RowOfNames(r, TeamNamesOf(r.team_links), configured, section, n1, n2)

\* lines 115-118 keeping the first header of the table
SectionAfterFirstHeader(r, section) ==
    IF r.h2 # None /\ section = None THEN r.h2 ELSE section

\* lines 115-118: the section date after the row
SectionAfter(r, section) == IF r.h2 # None THEN r.h2 ELSE section

-----------------------------------------------------------------------------
(* Calls of parse_french_date: texts written from their components, and     *)
(* texts that are not of the expected form                                  *)

CharOfDigit(n) == CHOOSE c \in DigitChars : DigitVal(c) = n

RECURSIVE DigitsOf(_)
DigitsOf(n) ==
    IF n < 10 THEN <<CharOfDigit(n)>> ELSE DigitsOf(n \div 10) \o <<CharOfDigit(n % 10)>>

TwoDigits(n) == <<CharOfDigit(n \div 10), CharOfDigit(n % 10)>>

MonthName(m) == CHOOSE name \in DOMAIN FRENCH_MONTHS : FRENCH_MONTHS[name] = m

\* a section header such as "lundi, 15 decembre"
HeaderText(day, month) ==
    <<"l", "u", "n", "d", "i", ",", " ">> \o DigitsOf(day) \o <<" ">> \o MonthName(month)

\* a time such as "18:00" or "9:05"
TimeText(hour, minute) == DigitsOf(hour) \o <<":">> \o TwoDigits(minute)

CallDays == {1, 15, 20, 21, 29, 31}
CallMonths == {1, 2, 4, 12}
CallHours == {0, 9, 18}
CallMinutes == {0, 5, 59}

\* readings of datetime.now() during a call
CallNows ==
    { Now(2024, 12, 20, 10, 30, 1), Now(2024, 2, 29, 23, 59, 0), Now(2023, 4, 1, 0, 0, 1) }

\* calls whose texts are written from a day, a month, an hour and a minute
WrittenCalls ==
    { [date_str |-> HeaderText(d, m), time_str |-> TimeText(h, mi), year |-> None,
       current_date |-> n, written |-> TRUE, day |-> d, month |-> m, hour |-> h,
       minute |-> mi, defect |-> "none"] :
      d \in CallDays, m \in CallMonths, h \in CallHours, mi \in CallMinutes, n \in CallNows }

\* "lundi, 15 decembre"
TextDec15 == HeaderText(15, 12)
\* "18:00"
Text1800 == TimeText(18, 0)
\* "lundi, 15 brumaire"
TextBrumaire ==
    <<"l", "u", "n", "d", "i", ",", " ", "1", "5", " ", "b", "r", "u", "m", "a", "i", "r", "e">>
\* "15 12"
TextNumericMonth == <<"1", "5", " ", "1", "2">>
\* "lundi, 15 DECEMBRE"
TextUpperMonth ==
    <<"l", "u", "n", "d", "i", ",", " ", "1", "5", " ", "D", "E_acute", "C", "E", "M", "B", "R", "E">>
\* "1er decembre"
TextOrdinalDay == <<"1", "e", "r", " ", "d", "e_acute", "c", "e", "m", "b", "r", "e">>
\* "lundi, 2147483648 mai"
TextHugeDay ==
    <<"l", "u", "n", "d", "i", ",", " ", "2", "1", "4", "7", "4", "8", "3", "6", "4", "8", " ", "m", "a", "i">>
\* "lundi, 2147483647 mai"
TextLargeDay ==
    <<"l", "u", "n", "d", "i", ",", " ", "2", "1", "4", "7", "4", "8", "3", "6", "4", "7", " ", "m", "a", "i">>
\* "lundi, 11...1 mai", the day one digit longer than int() converts
TextLongDay ==
    <<"l", "u", "n", "d", "i", ",", " ">> \o [i \in 1..(IntMaxStrDigits + 1) |-> "1"]
        \o <<" ", "m", "a", "i">>
\* "11...1:00", the hour one digit longer than int() converts
TextLongHour == [i \in 1..(IntMaxStrDigits + 1) |-> "1"] \o <<":", "0", "0">>
\* "lundi, 0 mai"
TextDayZero == <<"l", "u", "n", "d", "i", ",", " ", "0", " ", "m", "a", "i">>
\* "8:5"
TextShortMinute == <<"8", ":", "5">>
\* "18:00:30"
TextWithSeconds == <<"1", "8", ":", "0", "0", ":", "3", "0">>
\* "18h00"
TextHourH == <<"1", "8", "h", "0", "0">>
\* "vers 9:05"
TextTimeInWords == <<"v", "e", "r", "s", " ", "9", ":", "0", "5">>
\* "25:00"
TextHour25 == <<"2", "5", ":", "0", "0">>

\* the defect of each text: an unknown month name ("month"), a time that is
\* not H:MM or HH:MM ("time"), values that are no calendar date or time of
\* day ("date"), no day-and-month pair at all ("format")
OtherTexts ==
    { <<TextBrumaire, Text1800, None, "month">>,
      <<TextNumericMonth, Text1800, None, "month">>,
      <<TextUpperMonth, Text1800, None, "none">>,
      <<TextOrdinalDay, Text1800, None, "format">>,
      <<TextHugeDay, Text1800, None, "date">>,
      <<TextLargeDay, Text1800, None, "date">>,
      <<TextDayZero, Text1800, None, "date">>,
      <<TextLongDay, Text1800, None, "date">>,
      <<TextDec15, TextLongHour, None, "time">>,
      <<HeaderText(29, 2), Text1800, IntVal(2025), "date">>,
      <<HeaderText(29, 2), Text1800, IntVal(2028), "none">>,
      <<TextDec15, TextShortMinute, None, "time">>,
      <<TextDec15, TextWithSeconds, None, "time">>,
      <<TextDec15, TextHourH, None, "time">>,
      <<TextDec15, TextTimeInWords, None, "time">>,
      <<TextDec15, <<>>, None, "time">>,
      <<TextDec15, TextHour25, None, "date">> }

OtherCalls ==
    { [date_str |-> t[1], time_str |-> t[2], year |-> t[3], current_date |-> n,
       written |-> FALSE, day |-> 0, month |-> 0, hour |-> 0, minute |-> 0,
       defect |-> t[4]] : t \in OtherTexts, n \in CallNows }

Calls == WrittenCalls \cup OtherCalls

-----------------------------------------------------------------------------
(* The rows of the schedule table *)

\* a date such as "2025-01-10"
IsoText(year, month, day) ==
    DigitsOf(year) \o <<"-">> \o TwoDigits(month) \o <<"-">> \o TwoDigits(day)

TeamA == <<"A">>
TeamB == <<"B">>
TeamC == <<"C">>
TeamD == <<"D">>

\* self.team_names after construction
TeamConfigs == { <<TeamA>>, <<TeamA, TeamB>> }

\* tr with an h2
HeaderRow(text) ==
    [h2 |-> Text(text), schedule_container |-> FALSE, team_links |-> <<>>, cat |-> None,
     tds |-> <<>>]

\* tr.schedule_container
GameRow(team_links, cat, tds) ==
    [h2 |-> None, schedule_container |-> TRUE, team_links |-> team_links, cat |-> cat,
     tds |-> tds]

\* td: the text of its first div.game_date and of its first div.game_venue
Cell(date, venue) == [date |-> date, venue |-> venue]

\* div.cat_name with a span, "D3 Mixte"
CatD3 == [kind |-> "div", span |-> Text(<<"D", "3", " ", "M", "i", "x", "t", "e">>)]

\* "d3 Mixte"
CatD3Lower == [kind |-> "div", span |-> Text(<<"d", "3", " ", "M", "i", "x", "t", "e">>)]

Cats ==
    { CatD3, CatD3Lower, None, [kind |-> "div", span |-> None],
      [kind |-> "div", span |-> Text(<<>>)] }

\* "Arena (St-Aug)"
VenueStAug == <<"A", "r", "e", "n", "a", " ", "(", "S", "t", "-", "A", "u", "g", ")">>
\* "Dek 2 (st-aug) nord"
VenueStAugLower ==
    <<"D", "e", "k", " ", "2", " ", "(", "s", "t", "-", "a", "u", "g", ")", " ", "n", "o", "r", "d">>
\* "Dek (CHAUVEAU)"
VenueChauveauUpper == <<"D", "e", "k", " ", "(", "C", "H", "A", "U", "V", "E", "A", "U", ")">>
\* "Centre Levis", with the accent
VenueLevis == <<"C", "e", "n", "t", "r", "e", " ", "L", "e_acute", "v", "i", "s">>
\* "LEVIS"
VenueLevisUpper == <<"L", "E", "V", "I", "S">>
\* "Levis (chauveau) (St-Aug)", with the accent: all three markers
VenueAllMarkers ==
    <<"L", "e_acute", "v", "i", "s", " ", "(", "c", "h", "a", "u", "v", "e", "a", "u", ")",
      " ", "(", "S", "t", "-", "A", "u", "g", ")">>
\* "Levis (Chauveau)": the second and the third marker
VenueTwoMarkers ==
    <<"L", "e", "v", "i", "s", " ", "(", "C", "h", "a", "u", "v", "e", "a", "u", ")">>
\* "Chauveau": the name without the parenthesis
VenueNoParen == <<"C", "h", "a", "u", "v", "e", "a", "u">>
\* "Parc"
VenueParc == <<"P", "a", "r", "c">>

Venues ==
    { Text(VenueStAug), Text(VenueStAugLower), Text(VenueChauveauUpper), Text(VenueLevis),
      Text(VenueLevisUpper), Text(VenueAllMarkers), Text(VenueTwoMarkers),
      Text(VenueNoParen), Text(VenueParc), None }

\* the cells of a row in the absolute encoding: the date, then the time and the venue
AbsCells(year, month, day, time, venue) ==
    << Cell(Text(IsoText(year, month, day)), None), Cell(Text(time), venue) >>

\* the cells of a row in the relative encoding: the time, then the venue
RelCells(time, venue) == << Cell(Text(time), None), Cell(None, venue) >>

LinkLists ==
    { <<TeamA, TeamB>>, <<TeamB, TeamA>>, <<TeamA, TeamA, TeamB, TeamB>>, <<TeamC, TeamD>>,
      <<TeamC, TeamA>>, <<TeamA, TeamA>>, <<TeamA>>, <<<<>>, TeamA, TeamB>>,
      <<TeamC, TeamD, TeamA>>, <<TeamC, TeamA, TeamD>> }

CellLists ==
    { AbsCells(2025, 1, 10, Text1800, Text(VenueStAug)),
      \* the time's cell before the date's
      << Cell(Text(Text1800), Text(VenueStAug)), Cell(Text(IsoText(2025, 1, 10)), None) >>,
      AbsCells(2024, 12, 19, Text1800, Text(VenueStAug)),
      AbsCells(2024, 12, 20, Text1800, Text(VenueStAug)),
      \* the game ends in the next year
      AbsCells(2025, 12, 31, TimeText(23, 30), Text(VenueStAug)),
      \* no calendar date, and no time of day
      AbsCells(2025, 2, 30, Text1800, Text(VenueStAug)),
      AbsCells(2025, 1, 10, TextHour25, Text(VenueStAug)),
      << Cell(Text(Text1800), Text(VenueStAug)), Cell(Text(IsoText(2025, 2, 30)), None) >>,
      RelCells(Text1800, Text(VenueStAug)),
      RelCells(TextShortMinute, Text(VenueStAug)),
      RelCells(TextHourH, Text(VenueStAug)),
      \* no div.game_date at all
      << Cell(None, Text(VenueStAug)) >> }

Headers == { TextDec15, HeaderText(20, 12), TextBrumaire, <<>> }

TeamRows == { GameRow(l, CatD3, AbsCells(2025, 1, 10, Text1800, Text(VenueStAug))) : l \in LinkLists }
DateRows == { GameRow(<<TeamA, TeamC>>, CatD3, c) : c \in CellLists }
VenueRows ==
    { GameRow(<<TeamC, TeamA>>, CatD3, AbsCells(2025, 1, 10, Text1800, v)) : v \in Venues }
    \cup { GameRow(<<TeamC, TeamA>>, cat, AbsCells(2025, 1, 10, Text1800, Text(VenueLevis))) :
            cat \in Cats }
    \cup { GameRow(<<TeamC, TeamA>>, CatD3, RelCells(Text1800, v)) :
            v \in {Text(VenueChauveauUpper), Text(VenueParc), None} }
HeaderRows == { HeaderRow(t) : t \in Headers }
OtherRows ==
    { [h2 |-> None, schedule_container |-> FALSE, team_links |-> <<TeamA, TeamB>>,
       cat |-> CatD3, tds |-> AbsCells(2025, 1, 10, Text1800, Text(VenueStAug))] }

Rows == TeamRows \cup DateRows \cup VenueRows \cup HeaderRows \cup OtherRows

\* the tables of the pages fetched: rows that differ in their team links, in
\* their date cells and section headers, in their venue and category
Tables ==
    [ teams |-> TeamRows \cup OtherRows,
      dates |-> DateRows \cup HeaderRows,
      venues |-> VenueRows \cup HeaderRows ]

\* the values of current_date_str
Sections == {None} \cup { Text(t) : t \in Headers }

\* readings of datetime.now() during a run, in order
FetchNows ==
    { Now(2024, 12, 20, 10, 30, 1), Now(2024, 12, 20, 18, 0, 0), Now(2024, 12, 20, 18, 0, 1) }

-----------------------------------------------------------------------------
(* fetch_games: the loop over the rows *)

MaxRows == 3

\* RowBody, evaluated once for each of its arguments
BodyTable ==
    [r \in Rows |-> [configured \in TeamConfigs |-> [section \in Sections |->
     [n1 \in FetchNows |-> [n2 \in FetchNows |-> RowBody(r, configured, section, n1, n2)]]]]]

Init ==
    /\ team_names \in TeamConfigs
    /\ games = <<>>
    /\ current_date_str = None
    /\ now \in FetchNows
    /\ pc = "rows"
    /\ nrows = 0
    /\ row = None
    /\ outcome = "none"
    /\ table \in DOMAIN Tables
    /\ store = EmptyBag
    /\ run = 0
    /\ k = 0
    /\ added_count = 0
    /\ skipped_count = 0
    /\ failed_count = 0
    /\ attempts = <<>>
    /\ call = None
    /\ ret = None

\* lines 114-255: the loop body on row r; n1 and n2 are the readings of the
\* clock the body may take
RowDone(r, res) ==
    /\ row' = r
    /\ outcome' = res.outcome
    /\ nrows' = nrows + 1
    /\ current_date_str' = SectionAfter(r, current_date_str)
    /\ now' = IF res.readings = <<>> THEN now ELSE res.readings[Len(res.readings)]
    /\ games' = IF res.outcome = "found" THEN Append(games, res.game) ELSE games
    /\ pc' = IF res.outcome = "raised" THEN "raised" ELSE "rows"

ProcessRowOf(r, n1, n2) == RowDone(r, BodyTable[r][team_names][current_date_str][n1][n2])

ProcessRow ==
    /\ pc = "rows"
    /\ nrows < MaxRows
    /\ \E r \in Tables[table], n1 \in FetchNows, n2 \in FetchNows :
          /\ NowLeq(now, n1)
          /\ NowLeq(n1, n2)
          /\ ProcessRowOf(r, n1, n2)
    /\ UNCHANGED <<team_names, table, addVars, parseVars>>

\* lines 257-260: the table is exhausted
FinishFetch ==
    /\ pc = "rows"
    /\ pc' = "fetched"
    /\ UNCHANGED <<fetchVars, addVars, parseVars>>

Next == ProcessRow \/ FinishFetch

Spec == Init /\ [][Next]_vars

-----------------------------------------------------------------------------
(* add_to_calendar *)

\* game['start'].strftime('%m/%d/%Y %I:%M:%S %p'): the fields of the text
strftime(d) ==
    << d.month, d.day, d.year, (IF d.hour % 12 = 0 THEN 12 ELSE d.hour % 12), d.minute, 0,
       (IF d.hour < 12 THEN "AM" ELSE "PM") >>

\* lines 305-311: the event that add_script makes
EventOf(game) ==
    [calendar |-> game.calendar, summary |-> game.title, start_date |-> strftime(game.start),
     end_date |-> strftime(game.end), location |-> game.location, description |-> game.notes]

\* lines 275-289: what check_script returns; AppleScript's `is` compares
\* text without regard to case
EventExists(events, game) ==
    \E e \in BagToSet(events) :
        /\ e.calendar = game.calendar
        /\ e.start_date = strftime(game.start)
        /\ Lower(e.summary) = Lower(game.title)

\* lines 291-303: after the existence check, whose result is "true", "false"
\* or, when osascript exits with an error, "failed"
CheckBranch(result) == IF result = "true" THEN "skip" ELSE "insert"

\* lines 313-319 leaving the loop at the first failed insertion
AfterInsertStops(ok, index, count) ==
    IF index = count \/ ~ok
    THEN [pc |-> "fetched", k |-> index + 1]
    ELSE [pc |-> "check", k |-> index + 1]

\* lines 313-319 and the loop of line 270: a failed insertion is logged, and
\* the loop goes on to the next game
AfterInsert(ok, index, count) ==
    IF index = count THEN [pc |-> "fetched", k |-> index + 1] ELSE [pc |-> "check", k |-> index + 1]

MaxGames == 2
MaxRuns == 2

\* the rows whose games the calendar is written from
CalendarRows ==
    { GameRow(<<TeamA, TeamB>>, CatD3, AbsCells(2025, 1, 10, Text1800, Text(VenueStAug))),
      GameRow(<<TeamB, TeamA>>, CatD3, AbsCells(2025, 1, 10, Text1800, Text(VenueStAug))),
      GameRow(<<TeamC, TeamA>>, CatD3, AbsCells(2025, 1, 10, Text1800, Text(VenueLevis))),
      \* the same title in another case
      GameRow(<<TeamC, TeamA>>, CatD3Lower, AbsCells(2025, 1, 10, Text1800, Text(VenueLevis))),
      GameRow(<<TeamA, TeamC>>, CatD3, RelCells(Text1800, Text(VenueStAug))) }

\* the games fetch_games makes of them
CalendarGames ==
    { res.game : res \in
        { g \in { BodyTable[r][<<TeamA>>][Text(TextDec15)][n][n] : r \in CalendarRows, n \in FetchNows } :
            g.outcome = "found" } }

RECURSIVE SeqsUpTo(_, _)
SeqsUpTo(S, n) ==
    IF n = 0 THEN {<<>>}
    ELSE SeqsUpTo(S, n - 1) \cup { Append(q, x) : q \in SeqsUpTo(S, n - 1), x \in S }

CalendarInit ==
    /\ team_names = <<TeamA>>
    /\ games \in SeqsUpTo(CalendarGames, MaxGames)
    /\ current_date_str = None
    /\ now \in FetchNows
    /\ pc = "fetched"
    /\ nrows = 0
    /\ row = None
    /\ outcome = "none"
    /\ table = "none"
    /\ store = EmptyBag
    /\ run = 0
    /\ k = 0
    /\ added_count = 0
    /\ skipped_count = 0
    /\ failed_count = 0
    /\ attempts = <<>>
    /\ call = None
    /\ ret = None

\* lines 262-268: a call of add_to_calendar
StartAdd ==
    /\ pc = "fetched"
    /\ run < MaxRuns
    /\ run' = run + 1
    /\ IF games = <<>>
       THEN UNCHANGED <<pc, k, added_count, skipped_count, failed_count, attempts>>
       ELSE /\ pc' = "check"
            /\ k' = 1
            /\ added_count' = 0
            /\ skipped_count' = 0
            /\ failed_count' = 0
            /\ attempts' = <<>>
    /\ UNCHANGED <<fetchVars, store, parseVars>>

\* lines 270-303: the existence check of game k
CheckExists ==
    /\ pc = "check"
    /\ \E result \in {IF EventExists(store, games[k]) THEN "true" ELSE "false", "failed"} :
          /\ IF CheckBranch(result) = "skip"
             THEN /\ skipped_count' = skipped_count + 1
                  /\ attempts' = Append(attempts, [check |-> result, insert |-> "none"])
                  /\ pc' = IF k = Len(games) THEN "fetched" ELSE "check"
                  /\ k' = k + 1
             ELSE /\ pc' = "insert"
                  /\ attempts' = Append(attempts, [check |-> result, insert |-> "pending"])
                  /\ UNCHANGED <<k, skipped_count>>
    /\ UNCHANGED <<fetchVars, store, run, added_count, failed_count, parseVars>>

\* lines 305-319: the insertion of game k
InsertEvent ==
    /\ pc = "insert"
    /\ \E ok \in BOOLEAN :
          /\ store' = IF ok THEN store (+) SetToBag({EventOf(games[k])}) ELSE store
          /\ added_count' = IF ok THEN added_count + 1 ELSE added_count
          /\ failed_count' = IF ok THEN failed_count ELSE failed_count + 1
          /\ attempts' = [attempts EXCEPT ![k].insert = IF ok THEN "ok" ELSE "failed"]
          /\ pc' = AfterInsert(ok, k, Len(games)).pc
          /\ k' = AfterInsert(ok, k, Len(games)).k
    /\ UNCHANGED <<fetchVars, run, skipped_count, parseVars>>

CalendarNext == StartAdd \/ CheckExists \/ InsertEvent

SpecCalendar == CalendarInit /\ [][CalendarNext]_vars

-----------------------------------------------------------------------------
(* The specification of single calls of parse_french_date *)

ParseInit ==
    /\ call \in Calls
    /\ ret = Pending
    /\ team_names = <<>>
    /\ games = <<>>
    /\ current_date_str = None
    /\ now = call.current_date
    /\ pc = "parse"
    /\ nrows = 0
    /\ row = None
    /\ outcome = "none"
    /\ table = "none"
    /\ store = EmptyBag
    /\ run = 0
    /\ k = 0
    /\ added_count = 0
    /\ skipped_count = 0
    /\ failed_count = 0
    /\ attempts = <<>>

\* one call, to its return or to the exception that leaves it
ParseCall ==
    /\ pc = "parse"
    /\ ret = Pending
    /\ ret' = parse_french_date(call.date_str, call.time_str, call.year, call.current_date)
    /\ pc' = "parsed"
    /\ UNCHANGED <<call, fetchVars, addVars>>

ParseNext == ParseCall

SpecParse == ParseInit /\ [][ParseNext]_vars

-----------------------------------------------------------------------------
(* Properties *)

LastGame == games[Len(games)]

IsGameRow(r) == r # None /\ r.h2 = None /\ r.schedule_container

RECURSIVE PickInOrder(_, _)
PickInOrder(seq, idx) ==
    IF idx = {} THEN <<>>
    ELSE <<seq[Min(idx)]>> \o PickInOrder(seq, idx \ {Min(idx)})

\* the non-empty link texts of a row, each at its first occurrence
FirstSeen(links) ==
    PickInOrder(links, {i \in 1..Len(links) :
                          links[i] # <<>> /\ \A j \in 1..(i - 1) : links[j] # links[i]})

\* FirstSeen of the links of every row of the tables
FirstSeenOf == [r \in Rows |-> FirstSeen(r.team_links)]

\* the positions, in first-seen order, of the row's teams that are configured
ConfiguredAt(r) ==
    LET names == FirstSeenOf[r] IN {i \in 1..Len(names) : InList(names[i], team_names)}

\* days before each month of a common year
CumDays == <<0, 31, 59, 90, 120, 151, 181, 212, 243, 273, 304, 334>>

\* minutes from 2000-01-01 00:00 to d
MinuteNumber(d) ==
    LET days == (d.year - 2000) * 365 + Cardinality({y \in 2000..(d.year - 1) : IsLeap(y)})
                + CumDays[d.month] + (IF d.month > 2 /\ IsLeap(d.year) THEN 1 ELSE 0)
                + (d.day - 1)
    IN (days * 24 + d.hour) * 60 + d.minute

\* the timestamp a calendar date text (the fields of strftime's format) denotes
DateOfText(t) ==
    [kind |-> "datetime", year |-> t[3], month |-> t[1], day |-> t[2],
     hour |-> (t[4] % 12) + (IF t[7] = "PM" THEN 12 ELSE 0), minute |-> t[5]]

\* the stored events in the game's calendar with the game's start and title
EventsOfGame(g) ==
    {e \in BagToSet(store) :
        e.calendar = g.calendar /\ DateOfText(e.start_date) = g.start /\ e.summary = g.title}

RECURSIVE SumCopies(_)
SumCopies(es) ==
    IF es = {} THEN 0
    ELSE LET e == CHOOSE x \in es : TRUE IN CopiesIn(e, store) + SumCopies(es \ {e})

RunEnded == pc = "fetched" /\ run >= 1 /\ games # <<>>

\* C1: from an empty store, after the second call of add_to_calendar
\* on the same games there is exactly one stored event per game (calendar,
\* start, title), and the second call added nothing and skipped every game.
C1_Idempotent ==
    (RunEnded /\ run >= 2) =>
        /\ \A i \in 1..Len(games) : SumCopies(EventsOfGame(games[i])) = 1
        /\ added_count = 0
        /\ skipped_count = Len(games)

\* C2: a row is kept only if exactly one of its listed teams is
\* configured; with none or both configured it produces no game.
C2_ExactlyOne == outcome = "found" => Cardinality(ConfiguredAt(row)) = 1

\* C3: for every game produced, our_team is a configured team of the row,
\* opponent is another team of the row, different from our_team, and is_home
\* holds exactly when our_team is the second team in first-seen order.
C3_TeamsOfGame ==
    outcome = "found" =>
        LET names == FirstSeen(row.team_links)
            g == LastGame
        IN /\ InList(g.our_team, team_names)
           /\ InList(g.our_team, names)
           /\ InList(g.opponent, names)
           /\ g.opponent # g.our_team
           /\ g.is_home <=> (names[2] = g.our_team)

\* C4: with no year supplied and a valid month name, day and time, the result
\* has the month, day, hour and minute written in the texts; its year is the
\* current year + 1 if the month is before the current month, or is the
\* current month with the day before today's, and the current year otherwise.
\* (A day that is no day of that month in that year gives no result.)
C4_YearInference ==
    (ret # Pending /\ call.written) =>
        LET today == call.current_date
            y == IF call.month < today.month
                    \/ (call.month = today.month /\ call.day < today.day)
                 THEN today.year + 1 ELSE today.year
            lastDay == IF call.month = 2
                       THEN (IF (y % 4 = 0 /\ y % 100 # 0) \/ y % 400 = 0 THEN 29 ELSE 28)
                       ELSE IF call.month \in {4, 6, 9, 11} THEN 30 ELSE 31
        IN IF call.day <= lastDay
           THEN ret = [kind |-> "datetime", year |-> y, month |-> call.month,
                       day |-> call.day, hour |-> call.hour, minute |-> call.minute]
           ELSE ret = None

C4_Witness ==
    /\ ret # Pending /\ call.written
    /\ call.month = call.current_date.month /\ call.day < call.current_date.day
    /\ IsDatetime(ret) /\ ret.year = call.current_date.year + 1

\* C5: for an unknown month name, a time that is not of the form H:MM or
\* HH:MM, or a day, month and year that are no calendar date, the result is
\* None and no exception leaves parse_french_date.
C5_FailureIsNone ==
    (ret # Pending /\ (call.defect \in {"month", "date"} \/ ~MatchStrictTime(call.time_str)))
        => ret = None

\* C6: the venue is routed by the first rule that matches, without regard to
\* case: "(st-aug" -> "Dek St-Aug", "game {category}"; else "(chauveau" ->
\* "Dek Chauveau", "game {category}"; else "levis", with or without the accent
\* -> "Autre", "game {category} Levis"; a venue matching none gives no game.
C6_VenueRouting ==
    (IsGameRow(row) /\ outcome \in {"found", "unknown_venue"}) =>
        LET v == IF FirstVenue(row.tds) = None THEN TextTBD ELSE Lower(FirstVenue(row.tds).value)
            category == Category(row.cat)
        IN IF Contains(v, MarkStAugLower)
           THEN outcome = "found" /\ LastGame.calendar = "Dek St-Aug"
                /\ LastGame.title = TextGame \o category
           ELSE IF Contains(v, MarkChauveauLower)
           THEN outcome = "found" /\ LastGame.calendar = "Dek Chauveau"
                /\ LastGame.title = TextGame \o category
           ELSE IF Contains(v, MarkLevis) \/ Contains(v, MarkLevisAccent)
           THEN outcome = "found" /\ LastGame.calendar = "Autre"
                /\ LastGame.title = TextGame \o category \o TextLevisSuffix
           ELSE outcome = "unknown_venue"

C6_Witness ==
    /\ outcome = "found"
    /\ FirstVenue(row.tds) = Text(VenueAllMarkers)
    /\ LastGame.calendar = "Dek St-Aug"

\* C7: a game is appended only if its start is not strictly before the
\* reading of the clock taken for its row (line 219), which is now.
C7_NoPastGame == outcome = "found" => ~BeforeNow(LastGame.start, now)

C7_Witness ==
    /\ outcome = "found"
    /\ Fields(LastGame.start) = Fields(now)
    /\ now.frac = 0

\* C8: every game is handled whatever fails: after a failed existence check
\* the insertion is attempted, after a check that finds the event no
\* insertion is attempted, a failed insertion does not stop the loop, and at
\* the end added_count + skipped_count + failed insertions = number of games.
C8_EveryGameHandled ==
    /\ \A i \in 1..Len(attempts) :
          /\ attempts[i].check = "failed" => attempts[i].insert # "none"
          /\ attempts[i].check = "false" => attempts[i].insert # "none"
          /\ attempts[i].check = "true" => attempts[i].insert = "none"
    /\ pc \in {"check", "insert"} => Len(attempts) = (IF pc = "check" THEN k - 1 ELSE k)
    /\ RunEnded =>
          /\ Len(attempts) = Len(games)
          /\ \A i \in 1..Len(attempts) : attempts[i].insert # "pending"
          /\ added_count = Cardinality({i \in 1..Len(attempts) : attempts[i].insert = "ok"})
          /\ skipped_count = Cardinality({i \in 1..Len(attempts) : attempts[i].check = "true"})
          /\ failed_count = Cardinality({i \in 1..Len(attempts) : attempts[i].insert = "failed"})
          /\ added_count + skipped_count + failed_count = Len(games)

C8_Witness ==
    /\ RunEnded
    /\ Len(attempts) = 2
    /\ attempts[1].insert = "failed"
    /\ attempts[2].check = "failed" /\ attempts[2].insert = "ok"

\* a row has a cell with a time of day, a date (its own or the section's) and
\* a venue cell with a marker
HasDateTimeVenue(r, section) ==
    /\ \E i \in 1..Len(r.tds) : r.tds[i].date # None /\ SearchTime(r.tds[i].date.value) # None
    /\ \/ \E i \in 1..Len(r.tds) : HasIso(r.tds[i])
       \/ section # None /\ SearchDate(section.value) # None
    /\ \E i \in 1..Len(r.tds) :
          /\ r.tds[i].venue # None
          /\ \E m \in {MarkStAugLower, MarkChauveauLower, MarkLevis, MarkLevisAccent} :
                Contains(Lower(r.tds[i].venue.value), m)

\* HasDateTimeVenue of every row and section date of the tables
DateTimeVenue == [r \in Rows |-> [section \in Sections |-> HasDateTimeVenue(r, section)]]

\* a row has a configured team, a time of day, a date and a venue with a marker
HasAllParts(r, section) == ConfiguredAt(r) # {} /\ DateTimeVenue[r][section]

C9_Record ==
    \A i \in 1..Len(games) :
        /\ IsDatetime(games[i].start)
        /\ IsDatetime(games[i].end)
        /\ MinuteNumber(games[i].end) = MinuteNumber(games[i].start) + 50
        /\ games[i].location = <<>>
        /\ games[i].calendar \in {"Dek St-Aug", "Dek Chauveau", "Autre"}
        /\ InList(games[i].our_team, team_names)

C9_Step ==
    games' # games => (games' = Append(games, LastGame') /\ HasAllParts(row', current_date_str'))

\* C9: every game of the list has end = start + 50 minutes, an empty
\* location, one of the three calendars, a configured our_team and a start;
\* a step adds a game only for a row with a configured team, a time of day
\* and a date, and a venue with a marker.
C9_GameInvariant == []C9_Record /\ [][C9_Step]_vars

C9_Witness ==
    /\ Len(games) = 2
    /\ games[2].start.year = 2025 /\ games[2].end.year = 2026
    /\ games[1].calendar = "Dek St-Aug"

HasNoIso(r) == \A i \in 1..Len(r.tds) : ~HasIso(r.tds[i])

\* the section headers "lundi, <day> <month>" with their day and month
DayMonthHeaders ==
    { [text |-> HeaderText(d, m), day |-> d, month |-> m] : d \in 1..31, m \in 1..12 }

\* date and time cells with the timestamp they spell
AbsStarts ==
    { [iso |-> Text(IsoText(y, m, d)), time |-> Text(TimeText(h, mi)),
       start |-> [kind |-> "datetime", year |-> y, month |-> m, day |-> d,
                  hour |-> h, minute |-> mi]] :
        y \in {2024, 2025}, m \in {1, 12}, d \in {10, 19, 20, 31}, h \in {18, 23}, mi \in {0, 30} }

C10_State ==
    /\ (outcome = "found" /\ HasNoIso(row)) =>
          /\ current_date_str # None
          /\ \E hd \in DayMonthHeaders :
                /\ current_date_str.value = hd.text
                /\ LastGame.start.day = hd.day /\ LastGame.start.month = hd.month
    /\ (IsGameRow(row) /\ HasNoIso(row) /\ current_date_str = None) => outcome # "found"
    /\ \A a \in AbsStarts :
          (outcome = "found" /\ Len(row.tds) = 2 /\ row.tds[1].date = a.iso
              /\ row.tds[2].date = a.time) =>
              LastGame.start = a.start

C10_Step ==
    nrows' = nrows + 1 =>
        /\ row'.h2 # None => (current_date_str' = row'.h2 /\ games' = games)
        /\ row'.h2 = None => current_date_str' = current_date_str

\* C10: a header row replaces the section date and produces no game; a game
\* row never changes the section date; a game row with no ISO date takes its
\* day and month from the current section date, and produces no game when no
\* header came before it; a game row with a valid ISO date and time starts
\* at that date and time.
C10_SectionContext == []C10_State /\ [][C10_Step]_vars

C10_Witness ==
    /\ nrows = 3
    /\ outcome = "found" /\ HasNoIso(row)
    /\ current_date_str = Text(HeaderText(20, 12))
    /\ LastGame.start.day = 20 /\ LastGame.start.year = 2024

=============================================================================
